---- MODULE Spec2Model ----
(***************************************************************************)
(* Model of the reliability measurement server: the session driver         *)
(* (challenge_client), the timed exchange (send_client_msg_with_profiling),*)
(* the verification helpers, the scorer and the shared result directory.   *)
(***************************************************************************)
EXTENDS Integers, Sequences, FiniteSets, TLC

(***************************************************************************)
(* Bounds of the model.                                                    *)
(***************************************************************************)
\* Number of connections the acceptor serves concurrently.
MaxSessions == 2
\* ClientChallenger.number_of_cpu_challenge (perform_all sets 5).
number_of_cpu_challenge == 2
\* ClientChallenger.number_of_network_challenge (perform_all sets 10).
number_of_network_challenge == 2
\* Length of a roundtrip payload, data_size_kb * KB in the code.
NetworkDataBytes == 1
\* The unit of time, in milliseconds, that passes while a send, a read or
\* the processing of a frame is pending.
Delay == 13000

Sessions == 1 .. MaxSessions
\* Values Uuid::new_v4().as_u128() can return.
ClientIds == 1 .. MaxSessions
\* Values the RNG yields for a payload byte.
PayloadByteValues == {0, 1}
\* Primes prime::from_rng yields (neither is a Fermat prime, as no prime of
\* 128 bits is) and values of the random base a.
Primes == {7, 11}
Bases == {2}
\* Time a write_half.send takes to complete.
SendDurations == {Delay}
\* Time until the next item of the stream arrives.
WaitDurations == {0, Delay}
\* Time the server takes to check, decode and verify a frame it has read.
WorkDurations == {Delay}

(***************************************************************************)
(* Compiled-in configuration (perform_all).                                *)
(***************************************************************************)
cpu_squarings == 200000
cpu_ideal_milliseconds == 4500
cpu_max_milliseconds == 120000
network_ideal_milliseconds == 200
network_max_milliseconds == 25000

cpu_challenge_config ==
    [squarings |-> cpu_squarings,
     ideal_milliseconds |-> cpu_ideal_milliseconds,
     max_milliseconds |-> cpu_max_milliseconds]

network_challenge_config ==
    [data_size |-> NetworkDataBytes,
     ideal_milliseconds |-> network_ideal_milliseconds,
     max_milliseconds |-> network_max_milliseconds]

(***************************************************************************)
(* Big integers and byte strings (num_bigint, byteorder).                  *)
(***************************************************************************)
\* One step of square and multiply: from half = base^(exp \div 2) to
\* base^exp, modulo modulus.
ModPowStep(half, base, exp, modulus) ==
    LET sq == (half * half) % modulus
    IN IF exp % 2 = 1 THEN (sq * (base % modulus)) % modulus ELSE sq

RECURSIVE ModPow(_, _, _)
\* BigUint::modpow: base^exp mod modulus by square and multiply. The power
\* of the halved exponent is computed once and bound to half.
ModPow(base, exp, modulus) ==
    IF modulus = 1 THEN 0
    ELSE IF exp = 0 THEN 1
    ELSE CHOOSE r \in {ModPowStep(half, base, exp, modulus) :
                          half \in {ModPow(base, exp \div 2, modulus)}} : TRUE

RECURSIVE BigDigits(_)
BigDigits(v) == IF v = 0 THEN << >> ELSE Append(BigDigits(v \div 256), v % 256)

\* BigUint::to_bytes_be: minimal big-endian magnitude, zero is the byte 0.
ToBytesBE(v) == IF v = 0 THEN <<0>> ELSE BigDigits(v)

RECURSIVE FromBytesBE(_)
\* BigUint::from_bytes_be: leading zero bytes are ignored, empty is zero.
FromBytesBE(bytes) ==
    IF Len(bytes) = 0 THEN 0
    ELSE FromBytesBE(SubSeq(bytes, 1, Len(bytes) - 1)) * 256 + bytes[Len(bytes)]

RECURSIVE FixedLE(_, _)
\* v in exactly width bytes, least significant byte first.
FixedLE(v, width) ==
    IF width = 0 THEN << >> ELSE <<v % 256>> \o FixedLE(v \div 256, width - 1)

RECURSIVE FixedBE(_, _)
\* NetworkEndian::write_u64 / write_u32: v in exactly width bytes.
FixedBE(v, width) ==
    IF width = 0 THEN << >> ELSE Append(FixedBE(v \div 256, width - 1), v % 256)

\* A length no buffer of the model reaches: lengths read from the wire are
\* kept exact below it and are this value from it on.
HugeLength == 16777216

\* NetworkEndian::read_u64(..) as usize, with usize of 64 bits: the value of
\* the first 8 bytes.
ReadLength(bytes) ==
    IF \E i \in 1 .. 5 : bytes[i] # 0 THEN HugeLength
    ELSE FromBytesBE(SubSeq(bytes, 6, 8))

\* NetworkEndian::read_u32: the value of the first 4 bytes.
ReadU32(bytes) == FromBytesBE(SubSeq(bytes, 1, 4))

(***************************************************************************)
(* Time-lock puzzle (shared/src/challenges/timelock.rs).                   *)
(***************************************************************************)
\* Timelock::generate with the RNG draws p, q and a made explicit.
TimelockGenerate(p, q, a, squarings) ==
    LET phi == (p - 1) * (q - 1)
        n == p * q
        e == ModPow(2, squarings, phi)
        answer == ModPow(a, e, n)
    IN [timelock |-> [a |-> a, n |-> n, squarings |-> squarings],
        verifier |-> [answer |-> answer]]

\* Timelock::to_wire: [u64 len_a][a][u64 len_n][n][u32 squarings].
TimelockToWire(t) ==
    LET a_bytes == ToBytesBE(t.a)
        n_bytes == ToBytesBE(t.n)
    IN FixedBE(Len(a_bytes), 8) \o a_bytes \o FixedBE(Len(n_bytes), 8) \o n_bytes
         \o FixedBE(t.squarings, 4)

\* TimelockVerifier::verify.
TimelockVerify(verifier, client_response) == verifier.answer = client_response

\* Timelock::perform_challenge: a^(2^squarings) mod n.
TimelockPerformChallenge(t) == ModPow(t.a, 2 ^ t.squarings, t.n)

\* The results of from_wire: a puzzle, an error, or a panic of the thread.
ParseOk(t) == [ok |-> TRUE, panicked |-> FALSE, timelock |-> t]
ParseErr(e) == [ok |-> FALSE, panicked |-> FALSE, err |-> e]
Panicked == [ok |-> FALSE, panicked |-> TRUE]

parsing_error == "unable to parse wire data"
unexpected_data_error == "expected EOF; found additional data instead."

\* A sanity check that lets every length through.
LengthUnchecked(length, data, cursor) == FALSE

\* The sanity checks of from_wire (lines 65, 74).
LengthExceeds(length, data, cursor) == length > Len(data) - cursor

\* An end-of-buffer check that is never taken.
TrailingUnchecked(cursor, data) == FALSE

\* The end-of-buffer check of from_wire (line 83).
TrailingData(cursor, data) == cursor # Len(data)

\* Whether data[cursor..] holds the width bytes read_u64 / read_u32 take,
\* and data[cursor..cursor + length] is in range: they panic otherwise.
InRange(data, cursor, width) == cursor + width <= Len(data)

\* Timelock::from_wire.
TimelockFromWire(data) ==
    IF ~InRange(data, 0, 8) THEN Panicked
    ELSE
    LET a_bytes_length == ReadLength(SubSeq(data, 1, 8))
        cursor_a == 8
    IN
    IF LengthExceeds(a_bytes_length, data, cursor_a) THEN ParseErr(parsing_error)
    ELSE IF ~InRange(data, cursor_a, a_bytes_length) THEN Panicked
    ELSE
    LET a_bytes == SubSeq(data, cursor_a + 1, cursor_a + a_bytes_length)
        cursor_len_n == cursor_a + a_bytes_length
    IN
    IF ~InRange(data, cursor_len_n, 8) THEN Panicked
    ELSE
    LET n_bytes_length == ReadLength(SubSeq(data, cursor_len_n + 1, cursor_len_n + 8))
        cursor_n == cursor_len_n + 8
    IN
    IF LengthExceeds(n_bytes_length, data, cursor_n) THEN ParseErr(parsing_error)
    ELSE IF ~InRange(data, cursor_n, n_bytes_length) THEN Panicked
    ELSE
    LET n_bytes == SubSeq(data, cursor_n + 1, cursor_n + n_bytes_length)
        cursor_squarings == cursor_n + n_bytes_length
    IN
    IF ~InRange(data, cursor_squarings, 4) THEN Panicked
    ELSE
    LET squaring == ReadU32(SubSeq(data, cursor_squarings + 1, cursor_squarings + 4))
        cursor_end == cursor_squarings + 4
    IN
    IF TrailingData(cursor_end, data) THEN ParseErr(unexpected_data_error)
    ELSE ParseOk([a |-> FromBytesBE(a_bytes), n |-> FromBytesBE(n_bytes),
                  squarings |-> squaring])

(***************************************************************************)
(* Roundtrip puzzle (shared/src/challenges/roundtrip.rs).                  *)
(***************************************************************************)
\* SHA-256, taken as collision free: the digest determines the input.
Sha256(data) == <<"sha256", data>>

\* The byte vectors generate_data can fill: every vector of the given size.
RandomData(bytes) == [1 .. bytes -> PayloadByteValues]

\* Roundtrip::generate with the random payload made explicit.
RoundtripGenerate(data) ==
    [roundtrip |-> [data |-> data], verifier |-> [hash |-> Sha256(data)]]

\* Roundtrip::to_wire.
RoundtripToWire(r) == r.data

\* A verifier that compares the digests of the lengths alone.
RoundtripVerifyLength(verifier, client_response) ==
    Sha256(Len(client_response)) = Sha256(Len(verifier.hash[2]))

\* RoundtripVerifier::verify.
RoundtripVerify(verifier, client_response) == Sha256(client_response) = verifier.hash

(***************************************************************************)
(* Messages and the codec (shared/src/lib.rs).                             *)
(***************************************************************************)
ChallengeCPU(payload) ==
    [variant |-> "Challenge", kind |-> "CPUChallenge", payload |-> payload]
ChallengeNetwork(payload) ==
    [variant |-> "Challenge", kind |-> "NetworkChallenge", payload |-> payload]
ResponseCPU(payload) ==
    [variant |-> "Response", kind |-> "CPUChallengeResponse", payload |-> payload]
ResponseNetwork(payload) ==
    [variant |-> "Response", kind |-> "NetworkChallengeResponse", payload |-> payload]
DataInfo(text) == [variant |-> "Data", kind |-> "Info", text |-> text]
DataError(text) == [variant |-> "Data", kind |-> "Error", text |-> text]
DataResult(text) == [variant |-> "Data", kind |-> "Result", text |-> text]
Unknown == [variant |-> "Unknown"]

\* Message::encode: the MessagePack bytes of a message, kept symbolic.
Encode(msg) == <<"msgpack", msg>>

\* Bytes that are no MessagePack encoding of a Message.
Malformed == <<"malformed">>

\* Message::decode: the message, or an error on malformed input.
Decode(bytes) ==
    IF bytes[1] = "msgpack" THEN [ok |-> TRUE, msg |-> bytes[2]] ELSE [ok |-> FALSE]

\* warp::ws::Message::binary and a frame of another type (text).
WsBinary(bytes) == [binary |-> TRUE, bytes |-> bytes]
WsText(bytes) == [binary |-> FALSE, bytes |-> bytes]

(***************************************************************************)
(* Verification helpers (server/src/measurements/helpers.rs).              *)
(***************************************************************************)
\* A check of the variant alone, without the digest.
verify_network_any_response(roundtrip_verifier, response) ==
    response.variant = "Response"

verify_network_challenge_response(roundtrip_verifier, response) ==
    IF response.variant = "Response"
    THEN IF response.kind = "NetworkChallengeResponse"
         THEN RoundtripVerify(roundtrip_verifier, response.payload)
         ELSE FALSE
    ELSE FALSE

verify_cpu_challenge_response(timelock_verifier, response) ==
    IF response.variant = "Response"
    THEN IF response.kind = "CPUChallengeResponse"
         THEN TimelockVerify(timelock_verifier, FromBytesBE(response.payload))
         ELSE FALSE
    ELSE FALSE

(***************************************************************************)
(* Scorer (server/src/measurements/score.rs).                              *)
(***************************************************************************)
RECURSIVE SumSeq(_)
SumSeq(data) == IF Len(data) = 0 THEN 0 ELSE data[1] + SumSeq(Tail(data))

\* The mean rounded to the nearest integer.
find_mean_rounded(data) == (SumSeq(data) + Len(data) \div 2) \div Len(data)

find_mean(data) == SumSeq(data) \div Len(data)

\* The share of one axis mapped to 0-100.
PartialScoreOfHundred(mean, config) ==
    IF mean < config.ideal_milliseconds
    THEN 0
    ELSE ((mean - config.ideal_milliseconds) * (100 - 0))
           \div (config.max_milliseconds - config.ideal_milliseconds)

\* The share of one axis with the division rounded up.
PartialScoreCeil(mean, config) ==
    IF mean < config.ideal_milliseconds
    THEN 0
    ELSE ((mean - config.ideal_milliseconds) * (50 - 0)
            + (config.max_milliseconds - config.ideal_milliseconds) - 1)
           \div (config.max_milliseconds - config.ideal_milliseconds)

\* The 0-50 share of one axis.
PartialScore(mean, config) ==
    IF mean < config.ideal_milliseconds
    THEN 0
    ELSE ((mean - config.ideal_milliseconds) * (50 - 0))
           \div (config.max_milliseconds - config.ideal_milliseconds)

\* A score computed without the rejection of timings above the maximum.
calculate_score_never_rejects(cpu_config, cpu_res, network_config, network_res) ==
    100 - (PartialScore(find_mean(cpu_res), cpu_config)
             + PartialScore(find_mean(network_res), network_config))

calculate_score(cpu_config, cpu_res, network_config, network_res) ==
    LET cpu_results_median == find_mean(cpu_res)
        network_results_median == find_mean(network_res)
    IN IF \E k \in 1 .. Len(cpu_res) : cpu_res[k] > cpu_config.max_milliseconds
       THEN 0
       ELSE IF \E k \in 1 .. Len(network_res) :
                   network_res[k] > network_config.max_milliseconds
       THEN 0
       ELSE 100 - (PartialScore(cpu_results_median, cpu_config)
                     + PartialScore(network_results_median, network_config))

\* ClientChallenger::determine_score.
determine_score(cpu_res, network_res) ==
    calculate_score(cpu_challenge_config, cpu_res, network_challenge_config, network_res)

(***************************************************************************)
(* What a client can put on the stream.                                    *)
(***************************************************************************)
\* Answers to some puzzle the server can generate, and zero.
ClientAnswers ==
    {TimelockGenerate(p, q, a, cpu_squarings).verifier.answer :
        p \in Primes, q \in Primes, a \in Bases} \cup {0}

\* Byte strings a client sends as a CPU answer: minimal, or with a leading
\* zero byte.
ClientAnswerBytes ==
    {ToBytesBE(v) : v \in ClientAnswers} \cup {<<0>> \o ToBytesBE(v) : v \in ClientAnswers}

\* Payloads a client echoes: any payload of the right size, and a short one.
ClientPayloads == RandomData(NetworkDataBytes) \cup {<< >>}

ClientMessages ==
    {ResponseCPU(b) : b \in ClientAnswerBytes}
        \cup {ResponseNetwork(d) : d \in ClientPayloads}
        \cup {DataError("client error"), DataInfo("hello"), DataResult("result"),
              ChallengeCPU(<< >>), Unknown}

\* Binary frames with any of these messages or with malformed bytes, and text
\* frames whose bytes are those of a response.
ClientFrames ==
    {WsBinary(Encode(m)) : m \in ClientMessages}
        \cup {WsText(Encode(m)) : m \in {c \in ClientMessages : c.variant = "Response"}}
        \cup {WsBinary(Malformed)}

\* What read_half.next() resolves to: the end of the stream, a stream
\* error, or a frame.
StreamItems ==
    {[item |-> "closed"], [item |-> "error"]}
        \cup {[item |-> "frame", frame |-> f] : f \in ClientFrames}

(***************************************************************************)
(* Timed exchange (server/src/utils/network.rs).                           *)
(***************************************************************************)
\* The Instant taken before the send under either policy.
ClockAlwaysStartsBeforeSend(policy) == TRUE

\* Whether Instant::now() is taken before write_half.send (lines 24-30).
ClockStartsBeforeSend(policy) == policy

\* instant.elapsed().as_millis() (line 38): taken when the frame has been
\* received, before it is processed.
TimeElapsed(started_at, received_at, processed_at) == received_at - started_at

\* A check that lets every frame through.
is_binary_skipped(frame) == TRUE

\* warp::ws::Message::is_binary.
is_binary(frame) == frame.binary

\* A match that never finds the client's error.
IsClientErrorMissed(msg) == FALSE

\* The client_error match (lines 47-53).
IsClientError(msg) == msg.variant = "Data" /\ msg.kind = "Error"

Err(e) == [ok |-> FALSE, err |-> e]
Ok(msg, time_elapsed) == [ok |-> TRUE, msg |-> msg, time_elapsed |-> time_elapsed]

\* send_client_msg_with_profiling from the resolution of read_half.next()
\* to its return (lines 32-59).
ReceiveResult(next, started_at, received_at, processed_at) ==
    IF next.item = "closed"
    THEN Err("Can't read client response, the stream was closed")
    ELSE IF next.item = "error"
    THEN Err("Error reading from stream")
    ELSE LET time_elapsed == TimeElapsed(started_at, received_at, processed_at)
         IN IF ~is_binary(next.frame)
            THEN Err("Wrong message format, expected to be a binary data")
            ELSE LET decoded == Decode(next.frame.bytes)
                 IN IF ~decoded.ok
                    THEN Err("Error decoding a Message")
                    ELSE IF IsClientError(decoded.msg)
                    THEN Err("Client returned an error: " \o decoded.msg.text)
                    ELSE Ok(decoded.msg, time_elapsed)

(***************************************************************************)
(* Session driver (server/src/measurements/challenges.rs) and the          *)
(* connection acceptor (server/src/main.rs).                               *)
(***************************************************************************)
VARIABLES
    pc,                    \* where each session's task stands
    client_id,             \* the session id drawn by handle_connection
    idx,                   \* the loop variable i of the running for loop
    cpu_results,           \* challenge_client's cpu_results
    network_results,       \* challenge_client's network_results
    verifier,              \* the verifier of the challenge being exchanged
    profile_roundtrip_time,\* the policy argument of the running exchange
    outgoing,              \* the frame handed to the pending writer.send
    now,                   \* the clock, in ms since the exchange was entered
    instant,               \* the Instant taken by the exchange
    client_score,          \* challenge_client's client_score
    outcome,               \* what perform_all returned to handle_connection
    storage,               \* the shared HashMap behind the RwLock
    lock,                  \* the session holding the write lock, 0 if none
    sent,                  \* frames the client was sent (challenge payloads elided)
    measured,              \* history: elapsed time of each verified challenge
    fault,                 \* history: what was wrong with the first bad item read
    send_began_at,         \* history: clock when the last send was started
    send_ended_at,         \* history: clock when the last send completed
    received_at,           \* history: clock when the last frame arrived
    inserted,              \* history: the records each session inserted
    reads,                 \* history: items each session took from its stream
    call,                  \* a function applied on its own, with its arguments
    returned               \* what that function returned, once it has

locals == <<idx, cpu_results, network_results, verifier, profile_roundtrip_time,
            outgoing, now, instant, client_score>>
history == <<measured, fault, send_began_at, send_ended_at, received_at, inserted>>
\* The function call examined outside a session.
aux == <<call, returned>>
vars == <<pc, client_id, outcome, storage, lock, sent, locals, history, reads, aux>>

NoVerifier == [none |-> TRUE]
NoFrame == [none |-> TRUE]
NoCall == [fn |-> "none"]
NoResult == [none |-> TRUE]
EmptyStorage == [k \in {} |-> 0]

\* The frame as the sent log keeps it: a challenge without its payload.
Logged(frame) ==
    LET msg == Decode(frame.bytes).msg
    IN IF msg.variant = "Challenge" THEN [variant |-> msg.variant, kind |-> msg.kind]
       ELSE msg

\* An insert that writes the new record over every entry of the map.
StorageInsertOverAll(map, id, record) == [k \in DOMAIN map \cup {id} |-> record]

\* An insert into a clone of the map that is then dropped.
StorageInsertDropped(map, id, record) == map

\* An insert into a private copy of the map that then replaces it: entries
\* written meanwhile are lost.
StorageInsertLosesOthers(map, id, record) == [k \in {id} |-> record]

\* HashMap::insert: the entry under id is set, every other entry is kept.
StorageInsert(map, id, record) ==
    [k \in DOMAIN map \cup {id} |-> IF k = id THEN record ELSE map[k]]

\* Every result written to the first slot.
StoreResultAtFirst(results, i, time_elapsed) == [results EXCEPT ![1] = time_elapsed]

\* cpu_results[i] = ... / network_results[i] = ... (lines 170, 181).
StoreResult(results, i, time_elapsed) == [results EXCEPT ![i + 1] = time_elapsed]

\* Loops that stop one turn early.
CpuLoopStopsEarly(i) == i + 1 < number_of_cpu_challenge
NetworkLoopStopsEarly(i) == i + 1 < number_of_network_challenge

\* A network loop whose bound is never reached.
NetworkLoopNeverStops(i) == TRUE

\* The conditions of the two for loops (lines 169, 180).
CpuLoopContinues(i) == i < number_of_cpu_challenge
NetworkLoopContinues(i) == i < number_of_network_challenge

\* ClientData as challenge_client builds it (lines 190-194).
ClientData(score, cpu_res, network_res) ==
    [score |-> score,
     cpu_challenge_timings_in_milis |-> cpu_res,
     network_challenge_timings_in_milis |-> network_res]

\* format!("My score is: {}", client_score) (line 200).
ScoreText(score) == "My score is: " \o ToString(score)

(***************************************************************************)
(* What the client delivered, judged against the challenge it was sent:    *)
(* used by the properties only.                                            *)
(***************************************************************************)
Classify(next, challenge, expected) ==
    IF next.item = "closed" THEN "closed"
    ELSE IF next.item = "error" THEN "read_error"
    ELSE IF ~next.frame.binary THEN "not_binary"
    ELSE IF next.frame.bytes = Malformed THEN "malformed"
    ELSE LET msg == next.frame.bytes[2]
         IN IF msg.variant = "Data" /\ msg.kind = "Error" THEN "client_error"
            ELSE IF msg.variant # "Response" THEN "wrong_variant"
            ELSE IF msg.kind = "CPUChallengeResponse"
            THEN IF challenge.kind # "CPUChallenge" THEN "wrong_variant"
                 ELSE IF FromBytesBE(msg.payload) = expected.answer THEN "none"
                 ELSE "wrong_answer"
            ELSE IF challenge.kind # "NetworkChallenge" THEN "wrong_variant"
                 ELSE IF msg.payload = challenge.payload THEN "none"
                 ELSE "wrong_answer"

\* No connection has been accepted yet.
NoSession ==
    /\ pc = [s \in Sessions |-> "idle"]
    /\ client_id = [s \in Sessions |-> 0]
    /\ idx = [s \in Sessions |-> 0]
    /\ cpu_results = [s \in Sessions |-> << >>]
    /\ network_results = [s \in Sessions |-> << >>]
    /\ verifier = [s \in Sessions |-> NoVerifier]
    /\ profile_roundtrip_time = [s \in Sessions |-> FALSE]
    /\ outgoing = [s \in Sessions |-> NoFrame]
    /\ now = [s \in Sessions |-> 0]
    /\ instant = [s \in Sessions |-> 0]
    /\ client_score = [s \in Sessions |-> 0]
    /\ outcome = [s \in Sessions |-> "none"]
    /\ storage = EmptyStorage
    /\ lock = 0
    /\ sent = [s \in Sessions |-> << >>]
    /\ measured = [s \in Sessions |-> << >>]
    /\ fault = [s \in Sessions |-> "none"]
    /\ send_began_at = [s \in Sessions |-> 0]
    /\ send_ended_at = [s \in Sessions |-> 0]
    /\ received_at = [s \in Sessions |-> 0]
    /\ inserted = [s \in Sessions |-> << >>]
    /\ reads = [s \in Sessions |-> 0]

Init ==
    /\ NoSession
    /\ call = NoCall
    /\ returned = NoResult

\* The error of a failed writer.send (a warp::Error).
SinkError == "Error sending to the sink"

\* The task returns: its locals are dropped, handle_connection sees result.
\* The history of the exchanges ends with the task.
Return(s, result) ==
    /\ pc' = [pc EXCEPT ![s] = IF result = "Ok" THEN "done" ELSE "failed"]
    /\ outcome' = [outcome EXCEPT ![s] = result]
    /\ idx' = [idx EXCEPT ![s] = 0]
    /\ cpu_results' = [cpu_results EXCEPT ![s] = << >>]
    /\ network_results' = [network_results EXCEPT ![s] = << >>]
    /\ verifier' = [verifier EXCEPT ![s] = NoVerifier]
    /\ profile_roundtrip_time' = [profile_roundtrip_time EXCEPT ![s] = FALSE]
    /\ outgoing' = [outgoing EXCEPT ![s] = NoFrame]
    /\ now' = [now EXCEPT ![s] = 0]
    /\ instant' = [instant EXCEPT ![s] = 0]
    /\ client_score' = [client_score EXCEPT ![s] = 0]
    /\ measured' = [measured EXCEPT ![s] = << >>]
    /\ send_began_at' = [send_began_at EXCEPT ![s] = 0]
    /\ send_ended_at' = [send_ended_at EXCEPT ![s] = 0]
    /\ received_at' = [received_at EXCEPT ![s] = 0]

\* handle_connection draws the session id, perform_all builds the
\* challenger and challenge_client sets up its result vectors (main.rs
\* lines 41-43, challenges.rs lines 154-157). A version 4 UUID is taken to
\* be unique among the sessions of the process.
HandleConnectionStep(s) ==
    /\ pc[s] = "idle"
    /\ \E id \in ClientIds \ {client_id[t] : t \in Sessions} :
          client_id' = [client_id EXCEPT ![s] = id]
    /\ cpu_results' = [cpu_results EXCEPT ![s] = [k \in 1 .. number_of_cpu_challenge |-> 0]]
    /\ network_results' =
          [network_results EXCEPT ![s] = [k \in 1 .. number_of_network_challenge |-> 0]]
    /\ idx' = [idx EXCEPT ![s] = 0]
    /\ pc' = [pc EXCEPT ![s] = "cpu_loop"]
    /\ UNCHANGED <<verifier, profile_roundtrip_time, outgoing, now, instant, client_score,
                   outcome, storage, lock, sent, history, reads>>

HandleConnection(s) == HandleConnectionStep(s) /\ UNCHANGED aux

\* Entry of send_client_msg_with_profiling up to the pending
\* write_half.send(msg) (network.rs lines 21-30); with the round trip
\* profiled the Instant is taken here, before the send.
BeginExchange(s, bytes, policy) ==
    /\ outgoing' = [outgoing EXCEPT ![s] = WsBinary(bytes)]
    /\ profile_roundtrip_time' = [profile_roundtrip_time EXCEPT ![s] = policy]
    /\ now' = [now EXCEPT ![s] = 0]
    /\ instant' = [instant EXCEPT ![s] = 0]
    /\ send_began_at' = [send_began_at EXCEPT ![s] = 0]
    /\ send_ended_at' = [send_ended_at EXCEPT ![s] = 0]
    /\ received_at' = [received_at EXCEPT ![s] = 0]
    /\ pc' = [pc EXCEPT ![s] = "send"]

\* One turn of the CPU loop (lines 169-173): perform_cpu_challenge up to
\* the pending send (lines 61-76), or the end of the loop.
\* p, q and a are what Timelock::generate draws from the generator.
CpuLoopDraw(s, p, q, a) ==
    /\ pc[s] = "cpu_loop"
    /\ IF CpuLoopContinues(idx[s])
       THEN /\ LET gen == TimelockGenerate(p, q, a, cpu_challenge_config.squarings)
                   challenge_msg == TimelockToWire(gen.timelock)
               IN /\ verifier' = [verifier EXCEPT ![s] = gen.verifier]
                  /\ BeginExchange(s, Encode(ChallengeCPU(challenge_msg)), FALSE)
            /\ UNCHANGED <<idx>>
       ELSE /\ pc' = [pc EXCEPT ![s] = "network_loop"]
            /\ idx' = [idx EXCEPT ![s] = 0]
            /\ UNCHANGED <<verifier, profile_roundtrip_time, outgoing, now, instant,
                           send_began_at, send_ended_at, received_at>>
    /\ UNCHANGED <<client_id, cpu_results, network_results, client_score, outcome,
                   storage, lock, sent, measured, fault, inserted, reads>>

CpuLoop(s) ==
    \E p \in Primes, q \in Primes, a \in Bases :
        CpuLoopDraw(s, p, q, a) /\ UNCHANGED aux

\* One turn of the network loop (lines 180-184): perform_network_challenge
\* up to the pending send (lines 114-121), or the end of the loop and
\* determine_score (line 186).
\* data is what Roundtrip::generate draws from the generator.
NetworkLoopDraw(s, data) ==
    /\ pc[s] = "network_loop"
    /\ IF NetworkLoopContinues(idx[s])
       THEN /\ LET gen == RoundtripGenerate(data)
               IN /\ verifier' = [verifier EXCEPT ![s] = gen.verifier]
                  /\ BeginExchange(s, Encode(ChallengeNetwork(RoundtripToWire(gen.roundtrip))),
                                   TRUE)
            /\ UNCHANGED <<client_score>>
       ELSE /\ client_score' =
                  [client_score EXCEPT ![s] = determine_score(cpu_results[s], network_results[s])]
            /\ pc' = [pc EXCEPT ![s] = "write_lock"]
            /\ UNCHANGED <<verifier, profile_roundtrip_time, outgoing, now, instant,
                           send_began_at, send_ended_at, received_at>>
    /\ UNCHANGED <<client_id, idx, cpu_results, network_results, outcome,
                   storage, lock, sent, measured, fault, inserted, reads>>

NetworkLoop(s) ==
    \E data \in RandomData(network_challenge_config.data_size) :
        NetworkLoopDraw(s, data) /\ UNCHANGED aux

\* write_half.send(msg).await? completes (network.rs lines 24-30): the
\* frame is on the wire after some time and, with the round trip not
\* profiled, the Instant is taken now; or the sink reports an error.
\* delivered tells whether the sink took the frame, d how long it took.
SendChallengeDraw(s, delivered, d) ==
    /\ pc[s] = "send"
    /\ \/ /\ delivered
          /\ LET start == IF ClockStartsBeforeSend(profile_roundtrip_time[s])
                         THEN instant[s] ELSE now[s] + d
            IN /\ now' = [now EXCEPT ![s] = now[s] + d]
               /\ instant' = [instant EXCEPT ![s] = start]
               /\ send_ended_at' = [send_ended_at EXCEPT ![s] = now[s] + d]
               /\ sent' = [sent EXCEPT ![s] = Append(sent[s], Logged(outgoing[s]))]
               /\ pc' = [pc EXCEPT ![s] = "read"]
               /\ UNCHANGED <<idx, cpu_results, network_results, verifier,
                              profile_roundtrip_time, outgoing, client_score, outcome,
                              measured, send_began_at, received_at>>
       \/ /\ ~delivered
          /\ Return(s, SinkError)
          /\ UNCHANGED <<sent>>
    /\ UNCHANGED <<client_id, storage, lock, fault, inserted, reads>>

SendChallenge(s) ==
    \E delivered \in BOOLEAN, d \in SendDurations :
        SendChallengeDraw(s, delivered, d) /\ UNCHANGED aux

\* The outcome of one exchange for the caller: the next item of the stream
\* arrives after `wait` ms and is processed in `work` ms.
Exchange(s, next, wait, work) ==
    ReceiveResult(next, instant[s], now[s] + wait, now[s] + wait + work)

\* What the item read was, judged against the challenge on the wire; the
\* first fault of a session is the one remembered.
Judged(s, next) ==
    IF fault[s] # "none" THEN fault[s]
    ELSE Classify(next, Decode(outgoing[s].bytes).msg, verifier[s])

\* A Data.Error frame that names the client, as the error returned to
\* handle_connection does.
BeginFailureNamesClient(s, text) ==
    /\ outgoing' =
          [outgoing EXCEPT ![s] =
              WsBinary(Encode(DataError(text \o " for client " \o ToString(client_id[s]))))]
    /\ verifier' = [verifier EXCEPT ![s] = NoVerifier]
    /\ now' = [now EXCEPT ![s] = 0]
    /\ instant' = [instant EXCEPT ![s] = 0]
    /\ send_ended_at' = [send_ended_at EXCEPT ![s] = 0]
    /\ received_at' = [received_at EXCEPT ![s] = 0]
    /\ pc' = [pc EXCEPT ![s] = "send_error"]
    /\ UNCHANGED <<idx, cpu_results, network_results, profile_roundtrip_time,
                   client_score, outcome, measured, send_began_at>>

\* The pending writer.send of the Data.Error frame (lines 83-87, 128-133).
BeginFailure(s, text) ==
    /\ outgoing' = [outgoing EXCEPT ![s] = WsBinary(Encode(DataError(text)))]
    /\ verifier' = [verifier EXCEPT ![s] = NoVerifier]
    /\ now' = [now EXCEPT ![s] = 0]
    /\ instant' = [instant EXCEPT ![s] = 0]
    /\ send_ended_at' = [send_ended_at EXCEPT ![s] = 0]
    /\ received_at' = [received_at EXCEPT ![s] = 0]
    /\ pc' = [pc EXCEPT ![s] = "send_error"]
    /\ UNCHANGED <<idx, cpu_results, network_results, profile_roundtrip_time,
                   client_score, outcome, measured, send_began_at>>

\* The exchange returned Ok and the response verified: back in the loop.
NextTurn(s, kind, time_elapsed, received, loop) ==
    /\ idx' = [idx EXCEPT ![s] = idx[s] + 1]
    /\ verifier' = [verifier EXCEPT ![s] = NoVerifier]
    /\ now' = [now EXCEPT ![s] = 0]
    /\ instant' = [instant EXCEPT ![s] = 0]
    /\ measured' =
          [measured EXCEPT ![s] = Append(measured[s], [kind |-> kind, elapsed |-> time_elapsed])]
    /\ received_at' = [received_at EXCEPT ![s] = received]
    /\ outgoing' = [outgoing EXCEPT ![s] = NoFrame]
    /\ pc' = [pc EXCEPT ![s] = loop]
    /\ UNCHANGED <<profile_roundtrip_time, client_score, outcome,
                   send_began_at, send_ended_at>>

\* read_half.next() resolves during a CPU challenge: the rest of
\* send_client_msg_with_profiling (network.rs lines 32-59) and of
\* perform_cpu_challenge (challenges.rs lines 78-99), and the assignment
\* to cpu_results[i] (line 170).
CpuResponseDraw(s, next, wait, work) ==
    /\ pc[s] = "read"
    /\ ~profile_roundtrip_time[s]
    /\   LET r == Exchange(s, next, wait, work)
          IN /\ fault' = [fault EXCEPT ![s] = Judged(s, next)]
             /\ IF ~r.ok
                THEN Return(s, r.err)
                ELSE IF ~verify_cpu_challenge_response(verifier[s], r.msg)
                THEN BeginFailure(s, "Failed CPU measurements")
                ELSE /\ cpu_results' =
                          [cpu_results EXCEPT ![s] =
                              StoreResult(cpu_results[s], idx[s], r.time_elapsed)]
                     /\ NextTurn(s, "cpu", r.time_elapsed, now[s] + wait, "cpu_loop")
                     /\ UNCHANGED <<network_results>>
    /\ reads' = [reads EXCEPT ![s] = reads[s] + 1]
    /\ UNCHANGED <<client_id, storage, lock, sent, inserted>>

CpuResponse(s) ==
    \E next \in StreamItems, wait \in WaitDurations, work \in WorkDurations :
        CpuResponseDraw(s, next, wait, work) /\ UNCHANGED aux

\* read_half.next() resolves during a network challenge: the rest of
\* send_client_msg_with_profiling (network.rs lines 32-59) and of
\* perform_network_challenge (challenges.rs lines 123-145), and the
\* assignment to network_results[i] (line 181).
NetworkResponseDraw(s, next, wait, work) ==
    /\ pc[s] = "read"
    /\ profile_roundtrip_time[s]
    /\   LET r == Exchange(s, next, wait, work)
          IN /\ fault' = [fault EXCEPT ![s] = Judged(s, next)]
             /\ IF ~r.ok
                THEN Return(s, r.err)
                ELSE IF ~verify_network_challenge_response(verifier[s], r.msg)
                THEN BeginFailure(s, "Failed Network measurements")
                ELSE /\ network_results' =
                          [network_results EXCEPT ![s] =
                              StoreResult(network_results[s], idx[s], r.time_elapsed)]
                     /\ NextTurn(s, "network", r.time_elapsed, now[s] + wait, "network_loop")
                     /\ UNCHANGED <<cpu_results>>
    /\ reads' = [reads EXCEPT ![s] = reads[s] + 1]
    /\ UNCHANGED <<client_id, storage, lock, sent, inserted>>

NetworkResponse(s) ==
    \E next \in StreamItems, wait \in WaitDurations, work \in WorkDurations :
        NetworkResponseDraw(s, next, wait, work) /\ UNCHANGED aux

\* The two errors taken for each other.
MeasurementFailedSwapped(policy) ==
    IF policy THEN "CPU measurement failed for client"
    ELSE "Network measurement failed for client"

\* The error of a failed measurement (lines 88-91, 134-137).
MeasurementFailed(policy) ==
    IF policy THEN "Network measurement failed for client"
    ELSE "CPU measurement failed for client"

\* writer.send of the Data.Error frame completes (lines 83-91, 128-137):
\* the frame is sent and the measurement error returned, or the send error
\* is returned.
SendFailureDraw(s, delivered) ==
    /\ pc[s] = "send_error"
    /\ \/ /\ delivered
          /\ sent' = [sent EXCEPT ![s] = Append(sent[s], Logged(outgoing[s]))]
          /\ Return(s, MeasurementFailed(profile_roundtrip_time[s]))
       \/ /\ ~delivered
          /\ Return(s, SinkError)
          /\ UNCHANGED <<sent>>
    /\ UNCHANGED <<client_id, storage, lock, fault, inserted, reads>>

SendFailure(s) ==
    \E delivered \in BOOLEAN : SendFailureDraw(s, delivered) /\ UNCHANGED aux

\* storage.write().await resolves (line 188): the write lock is granted
\* when no one holds it.
WriteLockStep(s) ==
    /\ pc[s] = "write_lock"
    /\ lock = 0
    /\ lock' = s
    /\ pc' = [pc EXCEPT ![s] = "insert"]
    /\ UNCHANGED <<client_id, outcome, storage, sent, locals, history, reads>>

WriteLock(s) == WriteLockStep(s) /\ UNCHANGED aux

\* An insert whose guard lives on into the send of the score.
InsertStepKeepsLock(s) ==
    /\ pc[s] = "insert"
    /\ storage' =
          StorageInsert(storage, client_id[s],
                        ClientData(client_score[s], cpu_results[s], network_results[s]))
    /\ lock' = lock
    /\ inserted' =
          [inserted EXCEPT ![s] =
              Append(inserted[s],
                     ClientData(client_score[s], cpu_results[s], network_results[s]))]
    /\ outgoing' =
          [outgoing EXCEPT ![s] = WsBinary(Encode(DataInfo(ScoreText(client_score[s]))))]
    /\ pc' = [pc EXCEPT ![s] = "send_info"]
    /\ UNCHANGED <<client_id, outcome, sent, idx, cpu_results, network_results, verifier,
                   profile_roundtrip_time, now, instant, client_score,
                   measured, fault, send_began_at, send_ended_at, received_at, reads>>

\* The insert under the guard, the drop of the guard, and the pending send
\* of the score (lines 188-204).
InsertStep(s) ==
    /\ pc[s] = "insert"
    /\ storage' =
          StorageInsert(storage, client_id[s],
                        ClientData(client_score[s], cpu_results[s], network_results[s]))
    /\ lock' = 0
    /\ inserted' =
          [inserted EXCEPT ![s] =
              Append(inserted[s],
                     ClientData(client_score[s], cpu_results[s], network_results[s]))]
    /\ outgoing' =
          [outgoing EXCEPT ![s] = WsBinary(Encode(DataInfo(ScoreText(client_score[s]))))]
    /\ pc' = [pc EXCEPT ![s] = "send_info"]
    /\ UNCHANGED <<client_id, outcome, sent, idx, cpu_results, network_results, verifier,
                   profile_roundtrip_time, now, instant, client_score,
                   measured, fault, send_began_at, send_ended_at, received_at, reads>>

Insert(s) == InsertStep(s) /\ UNCHANGED aux

\* writer.send of the score completes (lines 197-206).
SendScoreDraw(s, delivered) ==
    /\ pc[s] = "send_info"
    /\ \/ /\ delivered
          /\ sent' = [sent EXCEPT ![s] = Append(sent[s], Logged(outgoing[s]))]
          /\ Return(s, "Ok")
       \/ /\ ~delivered
          /\ Return(s, SinkError)
          /\ UNCHANGED <<sent>>
    /\ UNCHANGED <<client_id, storage, lock, fault, inserted, reads>>

SendScore(s) ==
    \E delivered \in BOOLEAN : SendScoreDraw(s, delivered) /\ UNCHANGED aux

\* One step of the task of session s.
SessionStep(s) ==
    \/ HandleConnection(s)
    \/ CpuLoop(s)
    \/ NetworkLoop(s)
    \/ SendChallenge(s)
    \/ CpuResponse(s)
    \/ NetworkResponse(s)
    \/ SendFailure(s)
    \/ WriteLock(s)
    \/ Insert(s)
    \/ SendScore(s)

Next == \E s \in Sessions : SessionStep(s)

\* Concurrent sessions.
Spec == Init /\ [][Next]_vars

\* A single connection: only the first session is ever accepted.
NextOne == SessionStep(1)

SpecOne == Init /\ [][NextOne]_vars

\* The tasks are scheduled: a request for the write lock is granted once
\* the lock stays free (tokio's RwLock is fair), and the insert, which
\* awaits nothing, is carried out. Nothing is assumed of the clients.
LockFairness == \A s \in Sessions : WF_vars(WriteLock(s)) /\ WF_vars(Insert(s))

FairSpec == Spec /\ LockFairness

\* A single connection whose task is scheduled, whose sends complete and
\* whose client, for every challenge, delivers a frame or closes the
\* stream: no step of the session stays pending for ever.
SessionFairness == WF_vars(NextOne)

LiveSpecOne == SpecOne /\ SessionFairness

(***************************************************************************)
(* The scorer on its own (server/src/measurements/score.rs).               *)
(***************************************************************************)
\* Variables of the sessions, which the function calls leave alone.
session == <<pc, client_id, outcome, storage, lock, sent, locals, history, reads>>

\* Longest timing vector of the calls examined.
MaxTimings == 2

\* The configurations of the tests of score.rs.
test_cpu_challenge_config ==
    [squarings |-> 0, ideal_milliseconds |-> 100, max_milliseconds |-> 1100]
test_network_challenge_config ==
    [data_size |-> 0, ideal_milliseconds |-> 200, max_milliseconds |-> 2200]

\* Pairs of configurations calculate_score is called with: those of
\* perform_all and those of the tests.
ScoreConfigs ==
    {<<cpu_challenge_config, network_challenge_config>>,
     <<test_cpu_challenge_config, test_network_challenge_config>>}

\* Timings around the two thresholds of a configuration.
TimingsAround(config) ==
    {config.ideal_milliseconds - 1, config.ideal_milliseconds,
     config.ideal_milliseconds + 1, config.max_milliseconds - 1,
     config.max_milliseconds, config.max_milliseconds + 1}

\* The result vectors of at most MaxTimings entries over these timings.
TimingVectors(config) ==
    UNION {[1 .. n -> TimingsAround(config)] : n \in 1 .. MaxTimings}

ScoreCall(cpu_config, cpu_res, network_config, network_res) ==
    [fn |-> "calculate_score",
     cpu_challenge_config |-> cpu_config,
     cpu_results |-> cpu_res,
     network_challenge_config |-> network_config,
     network_results |-> network_res]

\* The calls of the tests of score.rs and of the examples of the scorer.
ScoreExamples ==
    {ScoreCall(test_cpu_challenge_config, c, test_network_challenge_config, n) :
        c \in {<<200, 300, 200, 500>>, <<1200, 300, 200, 500>>, <<1, 2, 3, 4>>},
        n \in {<<300, 400, 300, 600>>}}
      \cup {ScoreCall(test_cpu_challenge_config, <<1100, 1100, 1100, 1100>>,
                      test_network_challenge_config, <<2200, 2200, 2200, 2200>>),
            ScoreCall(test_cpu_challenge_config, <<100, 100, 100, 100>>,
                      test_network_challenge_config, <<200, 200, 200, 200>>)}

\* The examples, and for each pair of configurations every pair of result
\* vectors around its thresholds.
ScoreInit ==
    /\ NoSession
    /\ \/ call \in ScoreExamples
       \/ \E cfg \in ScoreConfigs :
             \E c \in TimingVectors(cfg[1]), n \in TimingVectors(cfg[2]) :
                call = ScoreCall(cfg[1], c, cfg[2], n)
    /\ returned = NoResult

\* calculate_score is applied to the arguments of the call.
CalculateScore ==
    /\ call.fn = "calculate_score"
    /\ returned = NoResult
    /\ returned' =
          [value |-> calculate_score(call.cpu_challenge_config, call.cpu_results,
                                     call.network_challenge_config, call.network_results)]
    /\ UNCHANGED <<call, session>>

ScoreNext == CalculateScore

ScoreSpec == ScoreInit /\ [][ScoreNext]_vars

(***************************************************************************)
(* The time-lock puzzle on its own (shared/src/challenges/timelock.rs).    *)
(***************************************************************************)
\* Largest random base a and largest number of squarings of the puzzles
\* generated, and largest value a mutated length field is given.
MaxBase == 8
MaxSquarings == 8
MaxDeclared == 30

\* Values of a, n and squarings of the puzzles put on the wire: zero, one
\* byte, the first values of two and three bytes, the compiled-in squarings.
WireValues == {0, 1, 255, 256, 65536}
WireSquarings == {0, 1, 256, cpu_squarings}

GenerateCalls ==
    {[fn |-> "generate", p |-> p, q |-> q, a |-> a, squarings |-> squarings] :
        p \in Primes, q \in Primes, a \in 0 .. MaxBase, squarings \in 1 .. MaxSquarings}

ToWireCalls ==
    {[fn |-> "to_wire", timelock |-> [a |-> a, n |-> n, squarings |-> squarings]] :
        a \in WireValues, n \in WireValues, squarings \in WireSquarings}
      \cup {[fn |-> "to_wire",
             timelock |-> TimelockGenerate(c.p, c.q, c.a, c.squarings).timelock] :
               c \in GenerateCalls}

\* The encodings of a few puzzles, the material of the buffers below.
ValidEncodings ==
    {TimelockToWire([a |-> a, n |-> n, squarings |-> squarings]) :
        a \in {0, 256}, n \in {21, 65536}, squarings \in {1, cpu_squarings}}

\* data with the byte at position i (from 1) set to v.
WithByte(data, i, v) == [data EXCEPT ![i] = v]

\* The position of the last byte of the len_n field of a valid encoding.
LenNPosition(valid) == 8 + ReadLength(SubSeq(valid, 1, 8)) + 8

\* Buffers handed to from_wire: a valid encoding, one followed by trailing
\* bytes, one with the last or a higher byte of len_a or the last byte of
\* len_n changed, and one cut short.
FromWireCalls ==
    UNION {
        {[fn |-> "from_wire", valid |-> valid, change |-> "none", data |-> valid]}
          \cup {[fn |-> "from_wire", valid |-> valid, change |-> "trailing",
                  data |-> valid \o tail] :
                    tail \in {<<0>>, <<0, 0, 0, 1>>, <<0, 0, 0, 0, 0, 0, 0, 1, 9>>}}
          \cup {[fn |-> "from_wire", valid |-> valid, change |-> "len_a",
                  data |-> WithByte(valid, 8, v)] : v \in 0 .. MaxDeclared}
          \cup {[fn |-> "from_wire", valid |-> valid, change |-> "len_a",
                  data |-> WithByte(valid, 3, 45)]}
          \cup {[fn |-> "from_wire", valid |-> valid, change |-> "len_n",
                  data |-> WithByte(valid, LenNPosition(valid), v)] : v \in 0 .. MaxDeclared}
          \cup {[fn |-> "from_wire", valid |-> valid, change |-> "cut",
                  data |-> SubSeq(valid, 1, k)] : k \in 0 .. Len(valid) - 1}
        : valid \in ValidEncodings}

TimelockInit ==
    /\ NoSession
    /\ call \in GenerateCalls \cup ToWireCalls \cup FromWireCalls
    /\ returned = NoResult

\* Timelock::generate returns the puzzle and its verifier.
Generate ==
    /\ call.fn = "generate"
    /\ returned = NoResult
    /\ returned' = TimelockGenerate(call.p, call.q, call.a, call.squarings)
    /\ UNCHANGED <<call, session>>

\* The puzzle generated is solved as a client solves it.
PerformChallenge ==
    /\ call.fn = "generate"
    /\ returned # NoResult
    /\ DOMAIN returned = {"timelock", "verifier"}
    /\ returned' =
          [timelock |-> returned.timelock, verifier |-> returned.verifier,
           solution |-> TimelockPerformChallenge(returned.timelock)]
    /\ UNCHANGED <<call, session>>

\* Timelock::to_wire returns the bytes of the puzzle.
ToWire ==
    /\ call.fn = "to_wire"
    /\ returned = NoResult
    /\ returned' = [wire |-> TimelockToWire(call.timelock)]
    /\ UNCHANGED <<call, session>>

\* Timelock::from_wire is applied to the bytes to_wire returned, or to the
\* buffer of the call.
FromWire ==
    /\ \/ /\ call.fn = "to_wire"
          /\ returned # NoResult
          /\ DOMAIN returned = {"wire"}
          /\ returned' = [wire |-> returned.wire, parsed |-> TimelockFromWire(returned.wire)]
       \/ /\ call.fn = "from_wire"
          /\ returned = NoResult
          /\ returned' = [wire |-> call.data, parsed |-> TimelockFromWire(call.data)]
    /\ UNCHANGED <<call, session>>

TimelockNext == Generate \/ PerformChallenge \/ ToWire \/ FromWire

TimelockSpec == TimelockInit /\ [][TimelockNext]_vars

(***************************************************************************)
(* The roundtrip puzzle on its own (shared/src/challenges/roundtrip.rs)    *)
(* and its verification helper (server/src/measurements/helpers.rs).       *)
(***************************************************************************)
\* Longest payload generated or returned in the calls examined.
MaxPayloadBytes == 3

\* Byte vectors of up to MaxPayloadBytes bytes.
Payloads == UNION {RandomData(n) : n \in 0 .. MaxPayloadBytes}

\* RoundtripVerifier::verify on a client's bytes, for the verifier generated
\* with data.
VerifyCalls ==
    {[fn |-> "verify", data |-> data, client_response |-> payload] :
        data \in Payloads, payload \in Payloads}

\* Messages handed to verify_network_challenge_response.
ResponseMessages ==
    {ResponseNetwork(d) : d \in Payloads} \cup {ResponseCPU(d) : d \in Payloads}
      \cup {ChallengeNetwork(d) : d \in Payloads}
      \cup {DataInfo("hello"), DataResult("result"), Unknown}

VerifyResponseCalls ==
    {[fn |-> "verify_network_challenge_response", data |-> data, response |-> m] :
        data \in Payloads, m \in ResponseMessages}

RoundtripInit ==
    /\ NoSession
    /\ call \in VerifyCalls \cup VerifyResponseCalls
    /\ returned = NoResult

\* Roundtrip::generate with the data of the call, then verify on the
\* client's bytes.
Verify ==
    /\ call.fn = "verify"
    /\ returned = NoResult
    /\ returned' =
          [value |-> RoundtripVerify(RoundtripGenerate(call.data).verifier,
                                     call.client_response)]
    /\ UNCHANGED <<call, session>>

\* Roundtrip::generate with the data of the call, then
\* verify_network_challenge_response on the message.
VerifyResponse ==
    /\ call.fn = "verify_network_challenge_response"
    /\ returned = NoResult
    /\ returned' =
          [value |-> verify_network_challenge_response(
                         RoundtripGenerate(call.data).verifier, call.response)]
    /\ UNCHANGED <<call, session>>

RoundtripNext == Verify \/ VerifyResponse

RoundtripSpec == RoundtripInit /\ [][RoundtripNext]_vars

(***************************************************************************)
(* Two sessions given the same inputs: the first runs on inputs chosen     *)
(* freely, the second is accepted under another session id and is given,   *)
(* step by step and at most MaxAhead steps later, the inputs of the first. *)
(***************************************************************************)
\* How many steps the first session may be ahead of the second.
MaxAhead == 2

\* What one step of a session takes from outside: the draws of its random
\* generator, the fate and duration of a send, the item read from the
\* stream and when it arrived. The session id is not among them.
Inputs ==
    {[step |-> "HandleConnection"], [step |-> "CpuLoopEnd"], [step |-> "NetworkLoopEnd"],
     [step |-> "WriteLock"], [step |-> "Insert"]}
      \cup {[step |-> "CpuLoop", p |-> p, q |-> q, a |-> a] :
               p \in Primes, q \in Primes, a \in Bases}
      \cup {[step |-> "NetworkLoop", data |-> data] :
               data \in RandomData(network_challenge_config.data_size)}
      \cup {[step |-> "SendChallenge", delivered |-> delivered, d |-> d] :
               delivered \in BOOLEAN, d \in SendDurations}
      \cup {[step |-> "Response", next |-> next, wait |-> wait, work |-> work] :
               next \in StreamItems, wait \in WaitDurations, work \in WorkDurations}
      \cup {[step |-> "SendFailure", delivered |-> delivered] : delivered \in BOOLEAN}
      \cup {[step |-> "SendScore", delivered |-> delivered] : delivered \in BOOLEAN}

\* The step of session s that takes the input in.
StepOn(s, in) ==
    \/ /\ in.step = "HandleConnection"
       /\ HandleConnectionStep(s)
    \/ /\ in.step = "CpuLoop"
       /\ CpuLoopContinues(idx[s])
       /\ CpuLoopDraw(s, in.p, in.q, in.a)
    \/ /\ in.step = "CpuLoopEnd"
       /\ ~CpuLoopContinues(idx[s])
       /\ \E p \in Primes, q \in Primes, a \in Bases : CpuLoopDraw(s, p, q, a)
    \/ /\ in.step = "NetworkLoop"
       /\ NetworkLoopContinues(idx[s])
       /\ NetworkLoopDraw(s, in.data)
    \/ /\ in.step = "NetworkLoopEnd"
       /\ ~NetworkLoopContinues(idx[s])
       /\ \E data \in RandomData(network_challenge_config.data_size) :
              NetworkLoopDraw(s, data)
    \/ /\ in.step = "SendChallenge"
       /\ SendChallengeDraw(s, in.delivered, in.d)
    \/ /\ in.step = "Response"
       /\ \/ CpuResponseDraw(s, in.next, in.wait, in.work)
          \/ NetworkResponseDraw(s, in.next, in.wait, in.work)
    \/ /\ in.step = "SendFailure"
       /\ SendFailureDraw(s, in.delivered)
    \/ /\ in.step = "WriteLock"
       /\ WriteLockStep(s)
    \/ /\ in.step = "Insert"
       /\ InsertStep(s)
    \/ /\ in.step = "SendScore"
       /\ SendScoreDraw(s, in.delivered)

\* The frame a step of session s put on the wire, if any.
FramesSent(s) == IF Len(sent'[s]) > Len(sent[s]) THEN <<outgoing[s]>> ELSE << >>

Ended(s) == pc[s] \in {"done", "failed"}

\* Where a session stands in challenge_client.
Position(s) == <<pc[s], idx[s], profile_roundtrip_time[s]>>

TwinInit ==
    /\ NoSession
    /\ call = [fn |-> "twin", pending |-> << >>, original |-> << >>, twin |-> << >>]
    /\ returned = NoResult

\* A step of the first session, on any input; the input is kept for the
\* second session with the place where it was taken and the frame sent.
Original ==
    /\ ~Ended(1)
    /\ Len(call.pending) < MaxAhead
    /\ \E in \in Inputs :
          /\ StepOn(1, in)
          /\ call' = [call EXCEPT !.pending =
                          Append(@, [in |-> in, at |-> Position(1),
                                     frames |-> FramesSent(1)])]
    /\ UNCHANGED returned

\* A step of the second session on the oldest input it was not yet given;
\* the frames the two sessions sent on that input are put side by side.
Replay ==
    /\ call.pending # << >>
    /\ LET head == Head(call.pending)
       IN /\ StepOn(2, head.in)
          /\ call' = [call EXCEPT !.pending = Tail(@),
                                  !.original = head.frames,
                                  !.twin = FramesSent(2)]
    /\ UNCHANGED returned

TwinNext == Original \/ Replay

TwinSpec == TwinInit /\ [][TwinNext]_vars

(***************************************************************************)
(* Properties.                                                             *)
(***************************************************************************)
IsChallenge(f, kind) == f.variant = "Challenge" /\ f.kind = kind
IsData(f, kind) == f.variant = "Data" /\ f.kind = kind

\* Number of frames of the sent log that are challenges of a kind.
ChallengesSent(s, kind) ==
    Cardinality({i \in DOMAIN sent[s] : IsChallenge(sent[s][i], kind)})

\* Number of challenges of a kind the session has verified so far.
Verified(s, kind) ==
    Cardinality({i \in DOMAIN measured[s] : measured[s][i].kind = kind})

Running(s) == pc[s] \notin {"idle", "done", "failed"}

\* C1: every session sends its challenge frames in the order all CPU
\* challenges, then all network challenges: the sent log is CPU frames,
\* then network frames, then at most one Data frame; a network challenge is
\* on the wire or about to be sent only when every CPU challenge has been
\* sent and verified; a session that ends well has sent all of both.
C1_ChallengeOrder ==
    \A s \in Sessions :
        LET cpu == ChallengesSent(s, "CPUChallenge")
            net == ChallengesSent(s, "NetworkChallenge")
        IN /\ cpu <= number_of_cpu_challenge
           /\ net <= number_of_network_challenge
           /\ \A i \in DOMAIN sent[s] :
                 /\ i <= cpu => IsChallenge(sent[s][i], "CPUChallenge")
                 /\ (cpu < i /\ i <= cpu + net) => IsChallenge(sent[s][i], "NetworkChallenge")
                 /\ i > cpu + net => (sent[s][i].variant = "Data" /\ i = Len(sent[s]))
           /\ net > 0 => cpu = number_of_cpu_challenge
           /\ (Running(s) /\ (net > 0 \/ (pc[s] = "send" /\ profile_roundtrip_time[s])))
                 => /\ cpu = number_of_cpu_challenge
                    /\ Verified(s, "cpu") = number_of_cpu_challenge
           /\ outcome[s] = "Ok"
                 => /\ cpu = number_of_cpu_challenge
                    /\ net = number_of_network_challenge

\* A session ended well after all its challenges and the score.
C1_Witness ==
    \E s \in Sessions :
        /\ outcome[s] = "Ok"
        /\ Len(sent[s]) = number_of_cpu_challenge + number_of_network_challenge + 1
        /\ IsChallenge(sent[s][number_of_cpu_challenge], "CPUChallenge")
        /\ IsChallenge(sent[s][number_of_cpu_challenge + 1], "NetworkChallenge")

\* C2: once a session has read an item that fails its challenge (stream
\* closed or in error, non-binary frame, malformed bytes, Data.Error, another
\* variant than the expected response, a wrong answer), the directory never
\* holds an entry under its id, and no step of that session changes the
\* directory.
C2_SessionAtomicity ==
    [][\A s \in Sessions :
          fault'[s] # "none"
              => /\ client_id'[s] \notin DOMAIN storage'
                 /\ pc'[s] # pc[s] => storage' = storage]_vars

\* A session failed on a bad response to a later challenge, after it had
\* verified at least one, while the directory holds another session's record.
C2_Witness ==
    \E s \in Sessions :
        /\ pc[s] = "failed"
        /\ fault[s] \in {"wrong_answer", "closed"}
        /\ Len(sent[s]) >= 2
        /\ DOMAIN storage # {}

\* Whether the session got through all its challenges: it is past the
\* insert, or the send of the score failed.
CompletedAll(s) ==
    \/ pc[s] \in {"send_info", "done"}
    \/ /\ pc[s] = "failed"
       /\ outcome[s] = SinkError
       /\ fault[s] = "none"
       /\ Len(sent[s]) = number_of_cpu_challenge + number_of_network_challenge

\* C3: a session inserts at most once; it has inserted exactly once, and the
\* directory holds a record under its id, exactly when it got through all
\* its challenges; and right after the insert every CPU and every network
\* challenge has been verified.
C3_ExactlyOneInsert ==
    \A s \in Sessions :
        /\ Len(inserted[s]) <= 1
        /\ Len(inserted[s]) = 1 <=> CompletedAll(s)
        /\ client_id[s] \in DOMAIN storage <=> Len(inserted[s]) = 1
        /\ pc[s] \in {"insert", "send_info"}
              => /\ Verified(s, "cpu") = number_of_cpu_challenge
                 /\ Verified(s, "network") = number_of_network_challenge

\* A session has just inserted, another has only reached the write lock.
C3_Witness ==
    \E s, t \in Sessions :
        /\ pc[s] = "send_info"
        /\ Len(inserted[s]) = 1
        /\ pc[t] = "write_lock"
        /\ Len(inserted[t]) = 0

\* C4: under every interleaving the directory holds exactly one entry per
\* session that has inserted, each under that session's id and equal to the
\* record that session inserted; so N successful sessions leave N entries.
C4_DirectoryConcurrency ==
    /\ Cardinality(DOMAIN storage) = Cardinality({s \in Sessions : Len(inserted[s]) > 0})
    /\ \A s \in Sessions :
          Len(inserted[s]) > 0
              => /\ client_id[s] \in DOMAIN storage
                 /\ storage[client_id[s]] = inserted[s][Len(inserted[s])]
    /\ (\A s \in Sessions : outcome[s] = "Ok")
          => Cardinality(DOMAIN storage) = MaxSessions

\* All sessions ended well with different records, the directory is full.
C4_Witness ==
    /\ \A s \in Sessions : outcome[s] = "Ok"
    /\ Cardinality(DOMAIN storage) = MaxSessions
    /\ \E s, t \in Sessions : storage[client_id[s]] # storage[client_id[t]]

\* Positions of the Data frames in the sent log.
DataFrames(s) == {i \in DOMAIN sent[s] : sent[s][i].variant = "Data"}

\* The kind of the last challenge the session has sent.
LastChallengeKind(s) ==
    IF ChallengesSent(s, "NetworkChallenge") > 0 THEN "NetworkChallenge" ELSE "CPUChallenge"

\* The text and the error the claims give for a failed verification.
FailedText(kind) ==
    IF kind = "CPUChallenge" THEN "Failed CPU measurements" ELSE "Failed Network measurements"
FailedError(kind) ==
    IF kind = "CPUChallenge" THEN "CPU measurement failed for client"
    ELSE "Network measurement failed for client"

\* The session read a frame that decodes to a message failing verification.
FailedVerification(s) == fault[s] \in {"wrong_answer", "wrong_variant"}

\* C5 as stated: after a response that fails verification the session always
\* ends with MeasurementFailed, having sent exactly one Data.Error frame with
\* the text of the phase as its last frame.
C5_Original ==
    \A s \in Sessions :
        (FailedVerification(s) /\ pc[s] = "failed")
            => /\ outcome[s] = FailedError(LastChallengeKind(s))
               /\ DataFrames(s) = {Len(sent[s])}
               /\ sent[s][Len(sent[s])] = DataError(FailedText(LastChallengeKind(s)))

\* Where a session stands after a response that failed verification.
C5_State(s) ==
    /\ pc[s] \in {"send_error", "failed"}
    /\ pc[s] = "send_error"
          => /\ outgoing[s] = WsBinary(Encode(DataError(FailedText(LastChallengeKind(s)))))
             /\ DataFrames(s) = {}
    /\ pc[s] = "failed"
          => \/ /\ outcome[s] = FailedError(LastChallengeKind(s))
                /\ DataFrames(s) = {Len(sent[s])}
                /\ sent[s][Len(sent[s])] = DataError(FailedText(LastChallengeKind(s)))
             \/ /\ outcome[s] = SinkError
                /\ DataFrames(s) = {}

\* C5 (amended): after a response that fails verification the server makes
\* one attempt to send a Data.Error frame with the text of the phase and
\* sends nothing else, no challenge in particular; if the send succeeds the
\* frame is the last one sent and the session ends with MeasurementFailed,
\* if the send fails no Data.Error frame is sent and the session ends with
\* the send error.
C5_FailedVerification ==
    [][\A s \in Sessions :
          /\ FailedVerification(s)' => C5_State(s)'
          /\ FailedVerification(s)
                => \/ sent'[s] = sent[s]
                   \/ /\ pc[s] = "send_error"
                      /\ sent'[s] =
                            Append(sent[s], DataError(FailedText(LastChallengeKind(s))))]_vars

\* A network response failed verification and the session ended with the
\* measurement error, the Data.Error frame being the last one sent.
C5_Witness ==
    \E s \in Sessions :
        /\ FailedVerification(s)
        /\ pc[s] = "failed"
        /\ outcome[s] = FailedError("NetworkChallenge")
        /\ sent[s][Len(sent[s])] = DataError("Failed Network measurements")

\* C6: when the frame read as the response is not binary the exchange fails
\* with the wrong-format error, the session has failed, that step and all
\* later ones send nothing (no Data.Error in particular), and the directory
\* holds no record of the session.
C6_TransportStrictness ==
    [][\A s \in Sessions :
          fault'[s] = "not_binary"
              => /\ pc'[s] = "failed"
                 /\ outcome'[s] = "Wrong message format, expected to be a binary data"
                 /\ sent'[s] = sent[s]
                 /\ DataFrames(s)' = {}
                 /\ client_id'[s] \notin DOMAIN storage']_vars

\* A text frame failed a session in its network phase.
C6_Witness ==
    \E s \in Sessions :
        /\ fault[s] = "not_binary"
        /\ pc[s] = "failed"
        /\ ChallengesSent(s, "NetworkChallenge") > 0

\* C7: when the frame read decodes to Data.Error(text) the exchange fails
\* with the client's error, the session has failed without a verification
\* failure being reported (no Data.Error goes back), nothing is sent in that
\* step or later, and the directory holds no record of the session.
C7_ClientReportedError ==
    [][\A s \in Sessions :
          fault'[s] = "client_error"
              => /\ pc'[s] = "failed"
                 /\ outcome'[s] = "Client returned an error: client error"
                 /\ sent'[s] = sent[s]
                 /\ DataFrames(s)' = {}
                 /\ client_id'[s] \notin DOMAIN storage']_vars

\* The client reported an error in reply to the second CPU challenge.
C7_Witness ==
    \E s \in Sessions :
        /\ fault[s] = "client_error"
        /\ pc[s] = "failed"
        /\ Len(sent[s]) = 2

\* Whether the exchange in progress is for a network challenge.
NetworkOutstanding(s) == Decode(outgoing[s].bytes).msg.kind = "NetworkChallenge"

\* C8: while a response is awaited the clock of a network challenge was
\* started when the send began, that of a CPU challenge when the send had
\* completed; and the time recorded for a verified challenge runs from that
\* start to the arrival of the response frame, the time spent checking,
\* decoding and verifying it excluded.
C8_TimingPolicy ==
    \A s \in Sessions :
        /\ pc[s] = "read"
              => /\ send_began_at[s] < send_ended_at[s]
                 /\ instant[s] =
                       IF NetworkOutstanding(s) THEN send_began_at[s] ELSE send_ended_at[s]
        /\ (pc[s] \in {"cpu_loop", "network_loop", "write_lock", "insert", "send_info"}
               /\ Len(measured[s]) > 0)
              => LET last == measured[s][Len(measured[s])]
                 IN last.elapsed =
                       received_at[s]
                         - (IF last.kind = "network" THEN send_began_at[s]
                            ELSE send_ended_at[s])

\* A CPU and a network challenge were both verified after a wait: the CPU
\* time is the wait alone, the network time the send and the wait.
C8_Witness ==
    \E s \in Sessions :
        /\ pc[s] = "network_loop"
        /\ Len(measured[s]) = number_of_cpu_challenge + 1
        /\ measured[s][number_of_cpu_challenge].elapsed = Delay
        /\ measured[s][number_of_cpu_challenge + 1].elapsed = 2 * Delay
        /\ received_at[s] = 2 * Delay

\* C9: the record is in the directory before the score is sent: while the
\* score is being sent and once it has been sent the directory holds the
\* session's record, with the score the message gives; and when the send of
\* the score fails the session returns the send error and the record stays.
C9_InsertBeforeScore ==
    \A s \in Sessions :
        /\ pc[s] = "send_info"
              => /\ client_id[s] \in DOMAIN storage
                 /\ outgoing[s] =
                       WsBinary(Encode(DataInfo("My score is: "
                                                  \o ToString(storage[client_id[s]].score))))
        /\ (\E i \in DOMAIN sent[s] : IsData(sent[s][i], "Info"))
              => /\ client_id[s] \in DOMAIN storage
                 /\ sent[s][Len(sent[s])]
                       = DataInfo("My score is: " \o ToString(storage[client_id[s]].score))
        /\ (pc[s] = "failed" /\ Len(inserted[s]) > 0)
              => /\ outcome[s] = SinkError
                 /\ DataFrames(s) = {}
                 /\ client_id[s] \in DOMAIN storage
                 /\ storage[client_id[s]] = inserted[s][1]

\* The send of a non-zero score failed after the insert.
C9_Witness ==
    \E s \in Sessions :
        /\ pc[s] = "failed"
        /\ Len(inserted[s]) = 1
        /\ client_id[s] \in DOMAIN storage
        /\ storage[client_id[s]].score > 0

\* C10: every record of the directory has number_of_cpu_challenge CPU
\* timings and number_of_network_challenge network timings and the score
\* calculate_score gives for them; and the record a session has just
\* inserted holds, in order, the times measured for its challenges.
C10_RecordContents ==
    /\ \A id \in DOMAIN storage :
          LET r == storage[id]
          IN /\ Len(r.cpu_challenge_timings_in_milis) = number_of_cpu_challenge
             /\ Len(r.network_challenge_timings_in_milis) = number_of_network_challenge
             /\ r.score =
                   calculate_score(cpu_challenge_config, r.cpu_challenge_timings_in_milis,
                                   network_challenge_config,
                                   r.network_challenge_timings_in_milis)
    /\ \A s \in Sessions :
          pc[s] = "send_info"
              => LET r == storage[client_id[s]]
                 IN /\ Len(measured[s]) = number_of_cpu_challenge + number_of_network_challenge
                    /\ \A i \in 1 .. number_of_cpu_challenge :
                          /\ measured[s][i].kind = "cpu"
                          /\ r.cpu_challenge_timings_in_milis[i] = measured[s][i].elapsed
                    /\ \A i \in 1 .. number_of_network_challenge :
                          /\ measured[s][number_of_cpu_challenge + i].kind = "network"
                          /\ r.network_challenge_timings_in_milis[i]
                                = measured[s][number_of_cpu_challenge + i].elapsed

\* A record whose timings differ from one challenge to the next, in both
\* vectors, and whose score is neither 0 nor 100.
C10_Witness ==
    \E s \in Sessions :
        /\ pc[s] = "send_info"
        /\ LET r == storage[client_id[s]]
           IN /\ r.cpu_challenge_timings_in_milis[1] > r.cpu_challenge_timings_in_milis[2]
              /\ r.network_challenge_timings_in_milis[1]
                    < r.network_challenge_timings_in_milis[2]

\* C11: the directory is insert-only and its records never change: every
\* step of every session, under every interleaving, leaves each record of
\* the directory under its id with the same contents.
C11_RecordsImmutable ==
    [][\A id \in DOMAIN storage :
          /\ id \in DOMAIN storage'
          /\ storage'[id] = storage[id]]_vars

\* Two sessions have inserted different records one after the other, and the
\* first record is as it was inserted.
C11_Witness ==
    \E s, t \in Sessions :
        /\ s # t
        /\ pc[s] \in {"done", "failed"}
        /\ Len(inserted[s]) = 1
        /\ Len(inserted[t]) = 1
        /\ inserted[s][1] # inserted[t][1]
        /\ storage[client_id[s]] = inserted[s][1]
        /\ storage[client_id[t]] = inserted[t][1]

\* The scorer as the specification words it: the arithmetic mean with
\* integer division, a share of 0 at or below the ideal and the truncated
\* linear share above it, and 0 when a timing exceeds its maximum.
ArithmeticMean(v) ==
    LET Sum[i \in 0 .. Len(v)] == IF i = 0 THEN 0 ELSE Sum[i - 1] + v[i]
    IN Sum[Len(v)] \div Len(v)
SpecifiedPartial(mean, ideal_ms, max_ms) ==
    IF mean <= ideal_ms THEN 0 ELSE ((mean - ideal_ms) * 50) \div (max_ms - ideal_ms)
Rejected(c) ==
    \/ \E i \in DOMAIN c.cpu_results :
          c.cpu_results[i] > c.cpu_challenge_config.max_milliseconds
    \/ \E i \in DOMAIN c.network_results :
          c.network_results[i] > c.network_challenge_config.max_milliseconds
SpecifiedScore(c) ==
    IF Rejected(c) THEN 0
    ELSE 100 - (SpecifiedPartial(ArithmeticMean(c.cpu_results),
                                 c.cpu_challenge_config.ideal_milliseconds,
                                 c.cpu_challenge_config.max_milliseconds)
                  + SpecifiedPartial(ArithmeticMean(c.network_results),
                                     c.network_challenge_config.ideal_milliseconds,
                                     c.network_challenge_config.max_milliseconds))

\* calculate_score has returned for the call.
Scored == call.fn = "calculate_score" /\ returned # NoResult

\* The call of an example: the test configurations with these vectors.
IsExample(cpu_res, network_res) ==
    call = ScoreCall(test_cpu_challenge_config, cpu_res,
                     test_network_challenge_config, network_res)

AllAt(results, ms) == \A i \in DOMAIN results : results[i] = ms
AllAtMax(c) ==
    /\ AllAt(c.cpu_results, c.cpu_challenge_config.max_milliseconds)
    /\ AllAt(c.network_results, c.network_challenge_config.max_milliseconds)

\* C14 as stated: when no timing exceeds its maximum the score is not 0.
C14_Original == (Scored /\ ~Rejected(call)) => returned.value # 0

\* C14 (amended): when no timing exceeds its maximum the score is 0 only if
\* every CPU timing equals cpu.max_ms and every network timing equals
\* network.max_ms, and it is 0 then; with some timing below its maximum the
\* score is between 1 and 100.
C14_ZeroOnlyAtMax ==
    (Scored /\ ~Rejected(call)) =>
        /\ returned.value \in 0 .. 100
        /\ returned.value = 0 <=> AllAtMax(call)

\* A call with one timing just below its maximum and all others at it has
\* been scored 1.
C14_Witness ==
    /\ Scored
    /\ ~Rejected(call)
    /\ ~AllAtMax(call)
    /\ returned.value = 1

\* The mean is at or below the ideal on both axes.
AtOrBelowIdeal(c) ==
    /\ ArithmeticMean(c.cpu_results) <= c.cpu_challenge_config.ideal_milliseconds
    /\ ArithmeticMean(c.network_results) <= c.network_challenge_config.ideal_milliseconds

\* The mean exceeds the ideal by less than a fiftieth of the span from ideal
\* to max, if at all.
WithinFirstStep(mean, config) ==
    (mean - config.ideal_milliseconds) * 50
        < config.max_milliseconds - config.ideal_milliseconds

\* C15 as stated: with no timing above its maximum the score is 100 if and
\* only if both means are at or below the ideal.
C15_Original ==
    (Scored /\ ~Rejected(call)) => (returned.value = 100 <=> AtOrBelowIdeal(call))

\* C15 (amended): with no timing above its maximum the score is 100 if and
\* only if on both axes the mean exceeds the ideal by less than
\* (max - ideal) / 50, if at all; means at or below the ideal on both axes
\* give 100.
C15_HundredWithinFirstStep ==
    (Scored /\ ~Rejected(call)) =>
        /\ returned.value = 100
              <=> /\ WithinFirstStep(ArithmeticMean(call.cpu_results),
                                     call.cpu_challenge_config)
                  /\ WithinFirstStep(ArithmeticMean(call.network_results),
                                     call.network_challenge_config)
        /\ AtOrBelowIdeal(call) => returned.value = 100

\* A CPU mean one millisecond above the ideal has been scored 100.
C15_Witness ==
    /\ Scored
    /\ ~Rejected(call)
    /\ ArithmeticMean(call.cpu_results) = call.cpu_challenge_config.ideal_milliseconds + 1
    /\ returned.value = 100

\* The puzzle generated by the call has been solved.
Solved == call.fn = "generate" /\ returned # NoResult /\ "solution" \in DOMAIN returned

\* C16 as stated: for any two primes the RNG yields, drawn independently of
\* each other, any base and any squarings >= 1, the solution of the puzzle
\* generated, a^(2^squarings) mod n, equals the verifier's answer.
C16_TimelockCorrectness == Solved => returned.solution = returned.verifier.answer

\* The puzzle of the call has been encoded and the bytes decoded again.
WireRoundTrip == call.fn = "to_wire" /\ returned # NoResult /\ "parsed" \in DOMAIN returned

\* A puzzle small enough to be solved here.
Solvable(t) == t.n > 0 /\ t.squarings <= MaxSquarings

\* C17: for every puzzle (a, n, squarings), from_wire(to_wire(p)) succeeds
\* with a puzzle equal to p in a, n and squarings, which solves to the same
\* answer.
C17_WireRoundTrip ==
    WireRoundTrip =>
        /\ returned.parsed.ok
        /\ returned.parsed.timelock.a = call.timelock.a
        /\ returned.parsed.timelock.n = call.timelock.n
        /\ returned.parsed.timelock.squarings = call.timelock.squarings
        /\ Solvable(call.timelock)
              => TimelockPerformChallenge(returned.parsed.timelock)
                    = TimelockPerformChallenge(call.timelock)

\* A puzzle with a = 0, a modulus of three bytes and the compiled-in
\* squarings came back from the wire.
C17_Witness ==
    /\ WireRoundTrip
    /\ call.timelock.a = 0
    /\ call.timelock.n = 65536
    /\ call.timelock.squarings = cpu_squarings
    /\ returned.parsed.ok
    /\ Len(returned.wire) = 8 + 1 + 8 + 3 + 4

\* from_wire has returned for the buffer of the call.
Parsed == call.fn = "from_wire" /\ returned # NoResult

\* from_wire returned an error.
ParseFailed == ~returned.parsed.ok /\ ~returned.parsed.panicked

\* C18: from_wire returns an error whenever the buffer holds a length field
\* (len_a, or len_n after an a that fits) whose value exceeds the bytes that
\* follow it, and whenever bytes remain after the squarings field; a valid
\* encoding followed by trailing bytes, or with len_a changed to more than
\* the bytes that follow, is rejected.
C18_ParseStrictness ==
    Parsed =>
        LET data == call.data
            has_a == Len(data) >= 8
            len_a == ReadLength(SubSeq(data, 1, 8))
            a_fits == has_a /\ len_a <= Len(data) - 8
            has_n == a_fits /\ Len(data) >= 8 + len_a + 8
            len_n == ReadLength(SubSeq(data, 8 + len_a + 1, 8 + len_a + 8))
            n_fits == has_n /\ len_n <= Len(data) - (8 + len_a + 8)
        IN /\ (has_a /\ ~a_fits) => ParseFailed
           /\ (has_n /\ ~n_fits) => ParseFailed
           /\ (n_fits /\ Len(data) > 8 + len_a + 8 + len_n + 4) => ParseFailed
           /\ call.change = "trailing" => ParseFailed
           /\ (call.change = "len_a" /\ len_a > Len(data) - 8) => ParseFailed

\* The third byte of len_a of a valid encoding was set to 45, as in the test
\* of timelock.rs, and from_wire returned the parsing error.
C18_Witness ==
    /\ Parsed
    /\ call.change = "len_a"
    /\ call.data[3] = 45
    /\ ParseFailed
    /\ returned.parsed.err = parsing_error

\* Two byte vectors of one length that differ in exactly one position.
OneByteApart(x, y) ==
    /\ Len(x) = Len(y)
    /\ Cardinality({i \in DOMAIN x : x[i] # y[i]}) = 1

\* C19: with SHA-256 taken as collision free, verify(payload) is true if
\* and only if the payload is byte for byte the data generated with the
\* verifier, a payload one byte apart is refused, and the verification of a
\* network response passes only for a Response.Network message carrying
\* exactly those bytes.
C19_RoundtripIntegrity ==
    /\ (call.fn = "verify" /\ returned # NoResult) =>
          /\ returned.value <=> call.client_response = call.data
          /\ OneByteApart(call.client_response, call.data) => ~returned.value
    /\ (call.fn = "verify_network_challenge_response" /\ returned # NoResult) =>
          (returned.value <=>
              /\ call.response.variant = "Response"
              /\ call.response.kind = "NetworkChallengeResponse"
              /\ call.response.payload = call.data)

\* A payload of full length with its last byte changed has been refused.
C19_Witness ==
    /\ call.fn = "verify"
    /\ returned # NoResult
    /\ Len(call.data) = MaxPayloadBytes
    /\ OneByteApart(call.client_response, call.data)
    /\ call.client_response[MaxPayloadBytes] # call.data[MaxPayloadBytes]
    /\ ~returned.value

\* Challenges of either kind the client of a session was sent.
AllChallengesSent(s) ==
    ChallengesSent(s, "CPUChallenge") + ChallengesSent(s, "NetworkChallenge")

\* C20: within a session at most one challenge is outstanding: the items
\* read from the stream are as many as the challenges sent, or one fewer
\* exactly while the session awaits the response to the last one, so nothing
\* is read with no challenge outstanding; and whenever a challenge is about
\* to be sent, the response to every earlier one has been read and verified.
C20_OneOutstanding ==
    \A s \in Sessions :
        LET n == AllChallengesSent(s)
        IN /\ reads[s] <= n
           /\ n <= reads[s] + 1
           /\ n = reads[s] + 1 <=> pc[s] = "read"
           /\ pc[s] = "send" =>
                 /\ reads[s] = n
                 /\ Len(measured[s]) = n
                 /\ fault[s] = "none"

\* The last challenge is outstanding after every earlier one was answered.
C20_Witness ==
    \E s \in Sessions :
        /\ pc[s] = "read"
        /\ AllChallengesSent(s) = number_of_cpu_challenge + number_of_network_challenge
        /\ reads[s] = AllChallengesSent(s) - 1
        /\ Len(measured[s]) = reads[s]

\* The frames a server may send: the two challenges, Data.Error with one of
\* the two fixed texts, Data.Info with the score of the record inserted.
MaySend(s, frame) ==
    /\ frame.binary
    /\ LET msg == Decode(frame.bytes).msg
       IN \/ IsChallenge(msg, "CPUChallenge")
          \/ IsChallenge(msg, "NetworkChallenge")
          \/ /\ IsData(msg, "Error")
             /\ msg.text \in {"Failed CPU measurements", "Failed Network measurements"}
          \/ /\ IsData(msg, "Info")
             /\ Len(inserted[s]) = 1
             /\ msg.text = ScoreText(inserted[s][1].score)

\* C12: no frame sent depends on the session id: a second session that runs
\* under another session id on the random draws, send results and client
\* frames of a first one stands, input for input, where the first stood,
\* sends on each input the very frame the first sent, and ends as the first
\* did; and every frame handed to the writer is a CPU challenge, a network
\* challenge, Data.Error with a fixed text or Data.Info with the score.
C12_SessionIdNotSent ==
    call.fn = "twin" =>
        /\ pc[2] # "idle" => client_id[2] # client_id[1]
        /\ \A s \in Sessions :
              pc[s] \in {"send", "send_error", "send_info"} => MaySend(s, outgoing[s])
        /\ call.twin = call.original
        /\ call.pending # << >> => Head(call.pending).at = Position(2)
        /\ call.pending = << >> =>
              /\ pc[2] = pc[1]
              /\ outgoing[2] = outgoing[1]
              /\ sent[2] = sent[1]
              /\ outcome[2] = outcome[1]

\* Both sessions ran to the score, under different ids, on the same inputs.
C12_Witness ==
    /\ call.fn = "twin"
    /\ call.pending = << >>
    /\ outcome[1] = "Ok"
    /\ outcome[2] = "Ok"
    /\ client_id[2] # client_id[1]
    /\ call.twin # << >>
    /\ IsData(Decode(call.twin[1].bytes).msg, "Info")
    /\ Len(sent[2]) = number_of_cpu_challenge + number_of_network_challenge + 1

\* C21: a session holds the write lock of the directory exactly between the
\* grant of the lock and the insert, never while a send or a read is
\* pending or after it ended; and a session that asked for the lock gets
\* its record inserted whatever the other sessions do, stalled or failed.
C21_LockScope ==
    /\ [](\A s \in Sessions : lock = s <=> pc[s] = "insert")
    /\ \A s \in Sessions : (pc[s] = "write_lock") ~> (Len(inserted[s]) = 1)

\* A session inserted its record while another awaits its client's
\* response and holds no lock.
C21_Witness ==
    \E s \in Sessions, t \in Sessions :
        /\ s # t
        /\ pc[s] = "read"
        /\ pc[t] = "send_info"
        /\ Len(inserted[t]) = 1
        /\ client_id[t] \in DOMAIN storage
        /\ lock = 0

\* The item is a binary frame that decodes to Message::Unknown.
IsUnknownFrame(next) ==
    /\ next.item = "frame"
    /\ next.frame.binary
    /\ Decode(next.frame.bytes).ok
    /\ Decode(next.frame.bytes).msg = Unknown

\* The step is session s reading the item next as the response to its
\* challenge.
ReadsItem(s, next) ==
    \E wait \in WaitDurations, work \in WorkDurations :
        \/ CpuResponseDraw(s, next, wait, work)
        \/ NetworkResponseDraw(s, next, wait, work)

\* C22: a response frame that decodes to the Unknown variant ends the
\* session as malformed input does: perform_all returns the decoding error,
\* no Data.Error frame is handed to the writer or sent, and the directory
\* is left as it was.
C22_UnknownIsCodecError ==
    [][\A next \in StreamItems :
          (IsUnknownFrame(next) /\ ReadsItem(1, next))
              => /\ pc'[1] = "failed"
                 /\ outcome'[1] = "Error decoding a Message"
                 /\ outgoing'[1] = NoFrame
                 /\ sent'[1] = sent[1]
                 /\ storage' = storage]_vars

\* The share calculate_score computes for the CPU axis of a call, and for
\* its network axis.
CpuShare(c) == PartialScore(find_mean(c.cpu_results), c.cpu_challenge_config)
NetworkShare(c) == PartialScore(find_mean(c.network_results), c.network_challenge_config)

\* C23: for non-empty timing vectors and ideal below max on both axes the
\* score returned lies in 0..100 and, when no timing is above its maximum,
\* both means lie at or below the maximum and both shares in 0..50, so that
\* neither mean - ideal, max - ideal nor 100 - (cpu share + network share)
\* goes below zero, and no divisor (the lengths, max - ideal) is zero.
C23_ScoreRange ==
    Scored =>
        /\ Len(call.cpu_results) > 0
        /\ Len(call.network_results) > 0
        /\ call.cpu_challenge_config.max_milliseconds
              - call.cpu_challenge_config.ideal_milliseconds > 0
        /\ call.network_challenge_config.max_milliseconds
              - call.network_challenge_config.ideal_milliseconds > 0
        /\ returned.value \in 0 .. 100
        /\ ~Rejected(call) =>
              /\ find_mean(call.cpu_results) <= call.cpu_challenge_config.max_milliseconds
              /\ find_mean(call.network_results)
                    <= call.network_challenge_config.max_milliseconds
              /\ CpuShare(call) \in 0 .. 50
              /\ NetworkShare(call) \in 0 .. 50
              /\ 100 - (CpuShare(call) + NetworkShare(call)) >= 0

\* A call with the whole share of 50 on the CPU axis and none on the
\* network axis has been scored 50.
C23_Witness ==
    /\ Scored
    /\ ~Rejected(call)
    /\ CpuShare(call) = 50
    /\ NetworkShare(call) = 0
    /\ returned.value = 50

\* The elapsed time measured for a challenge is above the maximum of its
\* kind.
OverMax(m) ==
    m.elapsed > (IF m.kind = "cpu" THEN cpu_challenge_config.max_milliseconds
                 ELSE network_challenge_config.max_milliseconds)

\* Some timing of the record is above the maximum of its kind.
LateRecord(r) ==
    \/ \E i \in DOMAIN r.cpu_challenge_timings_in_milis :
          r.cpu_challenge_timings_in_milis[i] > cpu_challenge_config.max_milliseconds
    \/ \E i \in DOMAIN r.network_challenge_timings_in_milis :
          r.network_challenge_timings_in_milis[i]
              > network_challenge_config.max_milliseconds

HasLateTiming(s) == \E i \in DOMAIN measured[s] : OverMax(measured[s][i])

\* C24: max_ms is no timeout. A verified response that took more than
\* max_ms leaves the session in its loop; a session with such a timing
\* ends in error only for a fault of the client or of a send; and when
\* every response verified the session has inserted a record with the full
\* timing vectors and the score 0, has handed Data.Info("My score is: 0")
\* to the writer, and ends well with that frame sent after all challenges.
C24_MaxIsNotTimeout ==
    /\ [][\A s \in Sessions :
             /\ (/\ Len(measured'[s]) = Len(measured[s]) + 1
                 /\ OverMax(measured'[s][Len(measured'[s])]))
                   => /\ pc'[s] \in {"cpu_loop", "network_loop"}
                      /\ outcome'[s] = "none"
             /\ (HasLateTiming(s) /\ pc'[s] = "failed")
                   => (fault'[s] # "none" \/ outcome'[s] = SinkError)]_vars
    /\ [](\A s \in Sessions :
             (pc[s] = "send_info" /\ LateRecord(inserted[s][1]))
                 => /\ storage[client_id[s]] = inserted[s][1]
                    /\ inserted[s][1].score = 0
                    /\ Len(inserted[s][1].cpu_challenge_timings_in_milis)
                          = number_of_cpu_challenge
                    /\ Len(inserted[s][1].network_challenge_timings_in_milis)
                          = number_of_network_challenge
                    /\ outgoing[s] = WsBinary(Encode(DataInfo("My score is: 0"))))
    /\ [](\A s \in Sessions :
             (outcome[s] = "Ok" /\ LateRecord(inserted[s][1]))
                 => /\ AllChallengesSent(s)
                          = number_of_cpu_challenge + number_of_network_challenge
                    /\ sent[s][Len(sent[s])] = DataInfo("My score is: 0"))

\* A session whose first network response took more than the maximum ended
\* well with the score 0 recorded and sent.
C24_Witness ==
    \E s \in Sessions :
        /\ outcome[s] = "Ok"
        /\ inserted[s][1].network_challenge_timings_in_milis[1]
              > network_challenge_config.max_milliseconds
        /\ storage[client_id[s]].score = 0
        /\ sent[s][Len(sent[s])] = DataInfo("My score is: 0")

\* C25: from_wire is total: for every buffer, the empty one and those too
\* short for a length field or for the squarings field included, it returns
\* a puzzle or an error and never panics.
C25_FromWireTotal == Parsed => ~returned.parsed.panicked

\* C26: a session whose sends complete and whose client answers or closes
\* the stream terminates; it ends well only with its record inserted, and
\* otherwise with an error; it sends at most number_of_cpu_challenge +
\* number_of_network_challenge challenges and after them at most one Data
\* frame; and once an exchange failed or the session ended no challenge is
\* sent again.
C26_Termination ==
    /\ \A s \in {1} : Running(s) ~> Ended(s)
    /\ [](\A s \in Sessions :
             /\ Ended(s) => outcome[s] # "none"
             /\ outcome[s] = "Ok" => Len(inserted[s]) = 1
             /\ AllChallengesSent(s) <= number_of_cpu_challenge + number_of_network_challenge
             /\ Len(sent[s]) <= AllChallengesSent(s) + 1
             /\ ChallengesSent(s, "CPUChallenge") <= number_of_cpu_challenge
             /\ ChallengesSent(s, "NetworkChallenge") <= number_of_network_challenge)
    /\ [][\A s \in Sessions :
             (fault[s] # "none" \/ Ended(s))
                 => AllChallengesSent(s)' = AllChallengesSent(s)]_vars

\* A session ended in error when its client closed the stream on the last
\* challenge.
C26_Witness ==
    /\ pc[1] = "failed"
    /\ outcome[1] = "Can't read client response, the stream was closed"
    /\ AllChallengesSent(1) = number_of_cpu_challenge + number_of_network_challenge
    /\ Len(sent[1]) = AllChallengesSent(1)
    /\ Len(inserted[1]) = 0
====
